---------------------------- MODULE Spec2Model ----------------------------
(***************************************************************************)
(* Model of controllers/account.go: the Signup, Logout, GetAccount,         *)
(* GetUserinfo and GetHumanCheck handlers of ApiController.                *)
(*                                                                         *)
(* Each request is served by its own goroutine, so several handlers run    *)
(* concurrently.  Signup is split into steps at the calls that read or     *)
(* write state shared between requests (verification ledger, user store);  *)
(* the statements between two such calls touch only the request's locals   *)
(* and belong to the step that precedes them.  A session serves one        *)
(* request at a time.                                                      *)
(*                                                                         *)
(* Absent values (Go nil pointers) are the empty sequence <<>>, present    *)
(* ones the one-element sequence <<v>>.                                    *)
(***************************************************************************)
EXTENDS Naturals, Sequences, FiniteSets, TLC

\* Bound of the model: the number of Signup requests the sessions send.
MaxSignups == 2

\* Bound of the model: the number of captchas object.GetCaptcha generates.
MaxCaptchas == 2

Sessions == {"s1", "s2"}

-----------------------------------------------------------------------------
(* Configuration read by the handlers: applications and organizations.     *)

Item(name, visible, rule, prompted) ==
    [name |-> name, visible |-> visible, rule |-> rule, prompted |-> prompted]

Applications ==
    { [Name |-> "app-closed", Organization |-> "org1", EnableSignUp |-> FALSE,
       HomepageUrl |-> "https://closed.example",
       SignupItems |-> << Item("ID", FALSE, "Random", FALSE),
                          Item("Username", TRUE, "None", FALSE),
                          Item("Email", TRUE, "None", FALSE),
                          Item("Phone", TRUE, "None", FALSE) >>],
      [Name |-> "app-inc", Organization |-> "org1", EnableSignUp |-> TRUE,
       HomepageUrl |-> "https://inc.example",
       SignupItems |-> << Item("ID", FALSE, "Incremental", FALSE),
                          Item("Username", TRUE, "None", FALSE),
                          Item("Display name", TRUE, "First, last", FALSE),
                          Item("Email", TRUE, "None", FALSE),
                          Item("Phone", TRUE, "None", FALSE) >>],
      [Name |-> "app-anon", Organization |-> "org2", EnableSignUp |-> TRUE,
       HomepageUrl |-> "",
       SignupItems |-> << Item("ID", FALSE, "Random", FALSE),
                          Item("Username", FALSE, "None", FALSE),
                          Item("Display name", TRUE, "None", FALSE),
                          Item("Email", FALSE, "None", FALSE),
                          Item("Affiliation", TRUE, "None", TRUE) >>],
      [Name |-> "app-anon-inc", Organization |-> "org1", EnableSignUp |-> TRUE,
       HomepageUrl |-> "",
       SignupItems |-> << Item("ID", FALSE, "Incremental", FALSE),
                          Item("Username", FALSE, "None", FALSE) >>],
      [Name |-> "app-built-in", Organization |-> "built-in", EnableSignUp |-> TRUE,
       HomepageUrl |-> "https://door.example",
       SignupItems |-> << Item("ID", FALSE, "Random", FALSE),
                          Item("Username", TRUE, "None", FALSE) >>] }

Organizations ==
    { [Name |-> "org1", DefaultAvatar |-> "avatar1.png",
       Tags |-> << <<"staff", "vip">> >>],
      [Name |-> "org2", DefaultAvatar |-> "avatar2.png", Tags |-> << >>] }

\* object.GetApplication("admin/<name>"): the application, or nil.
GetApplication(id) ==
    IF \E a \in Applications : "admin/" \o a.Name = id
    THEN << CHOOSE a \in Applications : "admin/" \o a.Name = id >>
    ELSE << >>

\* object.GetOrganization("admin/<name>"): the organization, or nil.
GetOrganization(id) ==
    IF \E o \in Organizations : "admin/" \o o.Name = id
    THEN << CHOOSE o \in Organizations : "admin/" \o o.Name = id >>
    ELSE << >>

\* application.IsSignupItemVisible(name): the item's flag, false without the item.
IsSignupItemVisible(application, name) ==
    \E i \in 1..Len(application.SignupItems) :
        /\ application.SignupItems[i].name = name
        /\ application.SignupItems[i].visible

\* application.GetSignupItemRule(name): the item's rule, "" without the item.
GetSignupItemRule(application, name) ==
    IF \E i \in 1..Len(application.SignupItems) : application.SignupItems[i].name = name
    THEN application.SignupItems[
            CHOOSE i \in 1..Len(application.SignupItems) :
                application.SignupItems[i].name = name].rule
    ELSE ""

\* application.HasPromptPage(): some signup item is prompted.
HasPromptPage(application) ==
    \E i \in 1..Len(application.SignupItems) : application.SignupItems[i].prompted

-----------------------------------------------------------------------------
(* Request forms (RequestForm, the fields Signup reads).  Password,        *)
(* Affiliation, IdCard and Region are copied to the record unread and are  *)
(* left out.                                                               *)

AppNames  == {"app-closed", "app-inc", "app-anon", "app-anon-inc", "app-none"}
OrgNames  == {"org1", "org2", "org-none"}
Usernames == {"alice", "bob"}
Emails    == {"", "a@x.io"}
Phones    == {"", "5550"}
Codes     == {"", "111", "000"}

\* A code is submitted with its channel and not without; the second existing
\* organization is signed up to through app-inc, without email and phone; the
\* application without email and phone items is sent neither; a name part is
\* left empty only in forms without email and phone.
Forms ==
    { f \in [Application : AppNames, Organization : OrgNames, Username : Usernames,
             Name : {"Al"}, FirstName : {"", "Ada"}, LastName : {"", "Lovelace"},
             Email : Emails, EmailCode : Codes,
             Phone : Phones, PhonePrefix : {"1"}, PhoneCode : Codes] :
        /\ (f.Email = "") = (f.EmailCode = "")
        /\ (f.Phone = "") = (f.PhoneCode = "")
        /\ f.Organization = "org2" =>
              f.Application = "app-inc" /\ f.Email = "" /\ f.Phone = ""
        /\ f.Application = "app-anon-inc" => f.Email = "" /\ f.Phone = ""
        /\ (f.FirstName = "" \/ f.LastName = "") =>
              /\ f.Email = "" /\ f.Phone = ""
              /\ f.Application \in {"app-inc", "app-anon"}
              /\ f.Username = "alice" }

\* fmt.Sprintf("+%s%s", form.PhonePrefix, form.Phone)
PhoneTarget(prefix, phone) == "+" \o prefix \o phone

\* The targets the verification ledger may hold a code for.
Targets == (Emails \ {""}) \cup { PhoneTarget("1", p) : p \in Phones \ {""} }

-----------------------------------------------------------------------------
(* Integer / string conversions.                                           *)

Digit == << "0", "1", "2", "3", "4", "5", "6", "7", "8", "9" >>

RECURSIVE Itoa(_)
\* strconv.Itoa for naturals; -1 + 1 = 0 is the least value Signup formats.
Itoa(n) == IF n < 10 THEN Digit[n + 1] ELSE Itoa(n \div 10) \o Digit[(n % 10) + 1]

\* The integers an id of the model can denote.
IdRange == 0 .. MaxSignups

IsInt(s) == \E n \in IdRange : Itoa(n) = s

\* util.ParseInt on a decimal string (it panics on anything else, see SignupAllocateId).
ParseInt(s) == CHOOSE n \in IdRange : Itoa(n) = s

-----------------------------------------------------------------------------
(* Responses.                                                              *)

\* The Response struct; Data and Data2 hold the JSON text of what they carry.
Response(status, msg, sub, name, data, data2) ==
    [status |-> status, msg |-> msg, sub |-> sub, name |-> name,
     data |-> data, data2 |-> data2]

\* c.ResponseOk(data...): one served body.
ResponseOk(data, data2) == Response("ok", "", "", "", data, data2)

\* c.ResponseError(msg, data...): one served body.
ResponseError(msg, data) == Response("error", msg, "", "", data, "")

\* A Go panic: the handler is unwound, it serves no Response of its own.
Panic(msg) == Response("panic", msg, "", "", "", "")

MsgSignOutFirst   == "Please sign out first before signing up"
MsgSignupDisabled == "The application does not allow to sign up new account"
MsgCreateFailed   == "Failed to create user, user information is invalid: "
MsgSignInFirst    == "Please sign in first"


-----------------------------------------------------------------------------
(* State.                                                                  *)

VARIABLES
    users,       \* the user store, in order of creation
    originalDb,  \* the secondary store AddUserToOriginalDatabase replicates to
    ledger,      \* verification ledger: target -> outstanding code, "" for none
    records,     \* audit records written by object.AddRecord
    tasks,       \* audit records handed to util.SafeGoroutine, not yet run
    session,     \* per session: username and session data
    pc,          \* per session: the position of the request being served
    form,        \* per session: the request body of the request being served
    checkPhone,  \* Signup's local checkPhone
    user,        \* Signup's local user (nil until built)
    resp,        \* per session: the bodies served for the request
    calls,       \* per session: the collaborator calls of the request, in order
    provider,    \* the default human-check provider, nil when none is configured
    captchas,    \* the number of captchas object.GetCaptcha has generated
    signups      \* the number of Signup requests sent so far

shared == << users, originalDb, ledger, records, tasks >>
locals == << pc, form, checkPhone, user, resp, calls >>
humanCheck == << provider, captchas >>
vars   == << users, originalDb, ledger, records, tasks, session,
             pc, form, checkPhone, user, resp, calls, provider, captchas, signups >>

-----------------------------------------------------------------------------
(* Collaborators of package object and util, as the handlers use them.     *)

\* object.CheckVerificationCode(dest, code): "" when code is the outstanding
\* code of dest, else the reason.
CheckVerificationCode(l, dest, code) ==
    IF dest \notin DOMAIN l \/ l[dest] = "" THEN "Code has not been sent yet!"
    ELSE IF l[dest] # code THEN "Wrong code!"
    ELSE ""

\* object.DisableVerificationCode(dest): dest has no outstanding code any more;
\* nothing happens for a dest without one (the empty dest included).
DisableVerificationCode(l, dest) ==
    IF dest \in DOMAIN l THEN [l EXCEPT ![dest] = ""] ELSE l

\* object.CheckUserSignup: "" or the reason the fields are refused.
CheckUserSignup(application, organization, f) ==
    IF organization = << >> THEN "Organization does not exist"
    ELSE IF IsSignupItemVisible(application, "Username") /\ f.Username = ""
    THEN "Username cannot be blank"
    ELSE ""

\* object.GetLastUser(owner): the most recently created user of owner, or nil.
GetLastUser(store, owner) ==
    LET idx == { i \in 1..Len(store) : store[i].Owner = owner }
    IN  IF idx = {} THEN << >>
        ELSE << store[CHOOSE i \in idx : \A j \in idx : j <= i] >>

\* object.GetUser("<owner>/<name>"): the user, or nil.
GetUser(store, id) ==
    LET idx == { i \in 1..Len(store) : store[i].Owner \o "/" \o store[i].Name = id }
    IN  IF idx = {} THEN << >> ELSE << store[CHOOSE i \in idx : TRUE] >>

\* Mutant of AddUserAffected: no duplicate is detected.
AddUserAlways(store, u) == TRUE

\* object.AddUser(user) reports whether the record was created: it is created
\* unless a record of the same owner and name exists.
AddUserAffected(store, u) ==
    ~ \E i \in 1..Len(store) : store[i].Owner = u.Owner /\ store[i].Name = u.Name

\* object.AddUser(user): the store after the call.
AddUser(store, u) ==
    IF AddUserAffected(store, u) THEN Append(store, u) ELSE store

\* util.GenerateId(): an identifier no stored or pending record carries.
GenerateId ==
    LET used == { users[i].Id : i \in 1..Len(users) }
                \cup { user[s][1].Id : s \in { t \in Sessions : user[t] # << >> } }
        n == CHOOSE k \in 0..MaxSignups :
                /\ "uuid-" \o Itoa(k) \notin used
                /\ \A j \in 0..MaxSignups :
                       "uuid-" \o Itoa(j) \notin used => k <= j
    IN  "uuid-" \o Itoa(n)

\* user.GetId(): "<owner>/<name>".
GetId(u) == u.Owner \o "/" \o u.Name

\* util.StructToJson(user), cut to the fields that identify the record.
StructToJson(u) == "{" \o u.Owner \o "," \o u.Name \o "," \o u.Id \o "}"

\* c.GetSessionUsername()
GetSessionUsername(s) == session[s].username

\* c.GetSessionApplication(): the application of the session data, or nil.
GetSessionApplication(s) ==
    IF session[s].data = << >> THEN << >>
    ELSE GetApplication("admin/" \o session[s].data[1].application)


-----------------------------------------------------------------------------
(* Signup.                                                                 *)

\* Mutant of SignupEntry: EnableSignUp is not looked at.
SignupEntryNoEnableCheck(s, f) ==
    LET application  == GetApplication("admin/" \o f.Application)
        organization == GetOrganization("admin/" \o f.Organization)
    IN  IF GetSessionUsername(s) # ""
        THEN << ResponseError(MsgSignOutFirst, GetSessionUsername(s)) >>
        ELSE IF application = << >>
        THEN << Panic("nil pointer dereference") >>
        ELSE IF CheckUserSignup(application[1], organization, f) # ""
        THEN << ResponseError(CheckUserSignup(application[1], organization, f), "") >>
        ELSE IF /\ IsSignupItemVisible(application[1], "Email")
                /\ f.Email # ""
                /\ CheckVerificationCode(ledger, f.Email, f.EmailCode) # ""
        THEN << ResponseError(
                  "Email: " \o CheckVerificationCode(ledger, f.Email, f.EmailCode), "") >>
        ELSE << >>

\* Signup up to the email check: the body that ends the call there, or nil.
SignupEntry(s, f) ==
    LET application  == GetApplication("admin/" \o f.Application)
        organization == GetOrganization("admin/" \o f.Organization)
    IN  IF GetSessionUsername(s) # ""
        THEN << ResponseError(MsgSignOutFirst, GetSessionUsername(s)) >>
        ELSE IF application = << >>
        THEN << Panic("nil pointer dereference") >>
        ELSE IF ~ application[1].EnableSignUp
        THEN << ResponseError(MsgSignupDisabled, "") >>
        ELSE IF CheckUserSignup(application[1], organization, f) # ""
        THEN << ResponseError(CheckUserSignup(application[1], organization, f), "") >>
        ELSE IF /\ IsSignupItemVisible(application[1], "Email")
                /\ f.Email # ""
                /\ CheckVerificationCode(ledger, f.Email, f.EmailCode) # ""
        THEN << ResponseError(
                  "Email: " \o CheckVerificationCode(ledger, f.Email, f.EmailCode), "") >>
        ELSE << >>

\* The collaborator calls Signup makes up to the email check, in order.
SignupEntryCalls(s, f) ==
    LET application  == GetApplication("admin/" \o f.Application)
        organization == GetOrganization("admin/" \o f.Organization)
    IN  IF GetSessionUsername(s) # ""
        THEN << "GetSessionUsername" >>
        ELSE IF application = << >> \/ ~ application[1].EnableSignUp
        THEN << "GetSessionUsername", "GetApplication" >>
        ELSE IF CheckUserSignup(application[1], organization, f) # ""
        THEN << "GetSessionUsername", "GetApplication", "GetOrganization",
                "CheckUserSignup" >>
        ELSE IF IsSignupItemVisible(application[1], "Email") /\ f.Email # ""
        THEN << "GetSessionUsername", "GetApplication", "GetOrganization",
                "CheckUserSignup", "CheckVerificationCode(" \o f.Email \o ")" >>
        ELSE << "GetSessionUsername", "GetApplication", "GetOrganization",
                "CheckUserSignup" >>

\* The value Signup gives its local checkPhone.
SignupCheckPhoneTarget(f) ==
    IF /\ IsSignupItemVisible(GetApplication("admin/" \o f.Application)[1], "Phone")
       /\ f.Phone # ""
    THEN PhoneTarget(f.PhonePrefix, f.Phone)
    ELSE ""

\* Mutant of SignupPhone: the result of the phone check is dropped.
SignupPhoneIgnored(f) == << >>

\* Signup's phone check: the body that ends the call there, or nil.
SignupPhone(f) ==
    IF /\ SignupCheckPhoneTarget(f) # ""
       /\ CheckVerificationCode(ledger, SignupCheckPhoneTarget(f), f.PhoneCode) # ""
    THEN << ResponseError(
              "Phone: " \o CheckVerificationCode(ledger, SignupCheckPhoneTarget(f),
                                                 f.PhoneCode), "") >>
    ELSE << >>

\* Whether util.ParseInt panics in Signup's id allocation: the last user of the
\* organization carries an id that is no decimal number.
SignupIdPanics(f) ==
    /\ GetSignupItemRule(GetApplication("admin/" \o f.Application)[1], "ID") = "Incremental"
    /\ GetLastUser(users, f.Organization) # << >>
    /\ ~ IsInt(GetLastUser(users, f.Organization)[1].Id)

\* Mutant of SignupId: the increment of the last id is missing.
SignupIdNoIncrement(f) ==
    IF GetSignupItemRule(GetApplication("admin/" \o f.Application)[1], "ID") = "Incremental"
    THEN LET lastUser  == GetLastUser(users, f.Organization)
             lastIdInt == IF lastUser # << >> THEN ParseInt(lastUser[1].Id) ELSE 0
         IN  Itoa(lastIdInt)
    ELSE GenerateId

\* The id Signup allocates.
SignupId(f) ==
    IF GetSignupItemRule(GetApplication("admin/" \o f.Application)[1], "ID") = "Incremental"
    THEN LET lastUser  == GetLastUser(users, f.Organization)
             lastIdInt == IF lastUser # << >> THEN ParseInt(lastUser[1].Id) + 1 ELSE 0
         IN  Itoa(lastIdInt)
    ELSE GenerateId

\* Mutant of SignupUser: the submitted username names the record also when the
\* application hides the item.
SignupUserKeepsUsername(f, id) ==
    LET application  == GetApplication("admin/" \o f.Application)[1]
        organization == GetOrganization("admin/" \o f.Organization)[1]
        firstLast    == /\ GetSignupItemRule(application, "Display name") = "First, last"
                        /\ (f.FirstName # "" \/ f.LastName # "")
    IN  [ Owner             |-> f.Organization,
          Name              |-> f.Username,
          Id                |-> id,
          Type              |-> "normal-user",
          DisplayName       |-> IF firstLast THEN f.FirstName \o " " \o f.LastName
                                ELSE f.Name,
          FirstName         |-> IF firstLast THEN f.FirstName ELSE "",
          LastName          |-> IF firstLast THEN f.LastName ELSE "",
          Avatar            |-> organization.DefaultAvatar,
          Email             |-> f.Email,
          Phone             |-> f.Phone,
          Tag               |-> IF Len(organization.Tags) > 0
                                THEN organization.Tags[1][1] ELSE "",
          SignupApplication |-> application.Name ]

\* Mutant of SignupUser: the display name is put together only when both name
\* parts are there.
SignupUserBothParts(f, id) ==
    LET application  == GetApplication("admin/" \o f.Application)[1]
        organization == GetOrganization("admin/" \o f.Organization)[1]
        firstLast    == /\ GetSignupItemRule(application, "Display name") = "First, last"
                        /\ (f.FirstName # "" /\ f.LastName # "")
    IN  [ Owner             |-> f.Organization,
          Name              |-> IF ~ IsSignupItemVisible(application, "Username")
                                THEN id ELSE f.Username,
          Id                |-> id,
          Type              |-> "normal-user",
          DisplayName       |-> IF firstLast THEN f.FirstName \o " " \o f.LastName
                                ELSE f.Name,
          FirstName         |-> IF firstLast THEN f.FirstName ELSE "",
          LastName          |-> IF firstLast THEN f.LastName ELSE "",
          Avatar            |-> organization.DefaultAvatar,
          Email             |-> f.Email,
          Phone             |-> f.Phone,
          Tag               |-> IF Len(organization.Tags) > 0
                                THEN organization.Tags[1][1] ELSE "",
          SignupApplication |-> application.Name ]

\* The record Signup builds for id.
SignupUser(f, id) ==
    LET application  == GetApplication("admin/" \o f.Application)[1]
        organization == GetOrganization("admin/" \o f.Organization)[1]
        firstLast    == /\ GetSignupItemRule(application, "Display name") = "First, last"
                        /\ (f.FirstName # "" \/ f.LastName # "")
    IN  [ Owner             |-> f.Organization,
          Name              |-> IF ~ IsSignupItemVisible(application, "Username")
                                THEN id ELSE f.Username,
          Id                |-> id,
          Type              |-> "normal-user",
          DisplayName       |-> IF firstLast THEN f.FirstName \o " " \o f.LastName
                                ELSE f.Name,
          FirstName         |-> IF firstLast THEN f.FirstName ELSE "",
          LastName          |-> IF firstLast THEN f.LastName ELSE "",
          Avatar            |-> organization.DefaultAvatar,
          Email             |-> f.Email,
          Phone             |-> f.Phone,
          Tag               |-> IF Len(organization.Tags) > 0
                                THEN organization.Tags[1][1] ELSE "",
          SignupApplication |-> application.Name ]

\* Mutant of SignupRecord: the record names the organization of the form.
SignupRecordFormOrganization(f, u) ==
    [ Organization |-> f.Organization, User |-> u.Name ]

\* The audit record Signup hands to the background goroutine.
SignupRecord(f, u) ==
    [ Organization |-> GetApplication("admin/" \o f.Application)[1].Organization,
      User         |-> u.Name ]

\* The request of session s makes the collaborator calls cs.
Call(s, cs) == calls' = [calls EXCEPT ![s] = calls[s] \o cs]

\* The request ends: its bodies are served.
Serve(s, bodies) ==
    /\ pc' = [pc EXCEPT ![s] = "done"]
    /\ resp' = [resp EXCEPT ![s] = bodies]

\* Signup from its entry to the email code check.
SignupCheckEmail(s) ==
    /\ pc[s] = "idle"
    /\ signups < MaxSignups
    /\ signups' = signups + 1
    /\ \E f \in Forms :
          /\ form' = [form EXCEPT ![s] = << f >>]
          /\ IF SignupEntry(s, f) # << >>
             THEN Serve(s, SignupEntry(s, f))
             ELSE /\ pc' = [pc EXCEPT ![s] = "checkPhone"]
                  /\ UNCHANGED resp
          /\ Call(s, SignupEntryCalls(s, f))
    /\ UNCHANGED << shared, session, checkPhone, user, humanCheck >>

\* Signup's phone code check.
SignupCheckPhone(s) ==
    /\ pc[s] = "checkPhone"
    /\ checkPhone' = [checkPhone EXCEPT ![s] = SignupCheckPhoneTarget(form[s][1])]
    /\ IF SignupPhone(form[s][1]) # << >>
       THEN Serve(s, SignupPhone(form[s][1]))
       ELSE /\ pc' = [pc EXCEPT ![s] = "allocate"]
            /\ UNCHANGED resp
    /\ Call(s, IF SignupCheckPhoneTarget(form[s][1]) # ""
               THEN << "CheckVerificationCode(" \o SignupCheckPhoneTarget(form[s][1]) \o ")" >>
               ELSE << >>)
    /\ UNCHANGED << shared, session, form, user, humanCheck, signups >>

\* Signup's id allocation and the construction of the user record.
SignupAllocateId(s) ==
    /\ pc[s] = "allocate"
    /\ IF SignupIdPanics(form[s][1])
       THEN /\ Serve(s, << Panic("strconv.Atoi: invalid syntax") >>)
            /\ UNCHANGED user
       ELSE /\ user' = [user EXCEPT ![s] = << SignupUser(form[s][1], SignupId(form[s][1])) >>]
            /\ pc' = [pc EXCEPT ![s] = "addUser"]
            /\ UNCHANGED resp
    /\ Call(s, IF GetSignupItemRule(GetApplication("admin/" \o form[s][1].Application)[1],
                                    "ID") = "Incremental"
               THEN << "GenerateId", "GetLastUser" >>
               ELSE << "GenerateId" >>)
    /\ UNCHANGED << shared, session, form, checkPhone, humanCheck, signups >>

\* Mutant of SignupCreated: the session is given the new user whether or not
\* the application has a prompt page.
SignupCreatedSignsIn(s) ==
    /\ originalDb' = Append(originalDb, user[s][1])
    /\ session' = [session EXCEPT ![s].username = GetId(user[s][1])]
    /\ pc' = [pc EXCEPT ![s] = "disable"]
    /\ Call(s, << "AddUser", "AddUserToOriginalDatabase", "SetSessionUsername" >>)
    /\ UNCHANGED resp

\* What Signup does once AddUser has created the record: replication to the
\* secondary store, and the session of the prompt page.
SignupCreated(s) ==
    /\ originalDb' = Append(originalDb, user[s][1])
    /\ session' = IF HasPromptPage(GetApplication("admin/" \o form[s][1].Application)[1])
                  THEN [session EXCEPT ![s].username = GetId(user[s][1])]
                  ELSE session
    /\ pc' = [pc EXCEPT ![s] = "disable"]
    /\ Call(s, IF HasPromptPage(GetApplication("admin/" \o form[s][1].Application)[1])
               THEN << "AddUser", "AddUserToOriginalDatabase", "SetSessionUsername" >>
               ELSE << "AddUser", "AddUserToOriginalDatabase" >>)
    /\ UNCHANGED resp

\* Mutant of SignupRejected: the record is replicated before the result of
\* AddUser is looked at.
SignupRejectedReplicated(s) ==
    /\ Serve(s, << ResponseError(MsgCreateFailed \o StructToJson(user[s][1]), "") >>)
    /\ originalDb' = Append(originalDb, user[s][1])
    /\ Call(s, << "AddUser", "AddUserToOriginalDatabase" >>)
    /\ UNCHANGED session

\* Mutant of SignupRejected: the return after the error is missing, Signup goes on.
SignupRejectedFallsThrough(s) == SignupCreated(s)

\* What Signup does when AddUser reports that nothing was created.
SignupRejected(s) ==
    /\ Serve(s, << ResponseError(MsgCreateFailed \o StructToJson(user[s][1]), "") >>)
    /\ Call(s, << "AddUser" >>)
    /\ UNCHANGED << originalDb, session >>

\* Signup's AddUser call and what follows it up to the session.
SignupAddUser(s) ==
    /\ pc[s] = "addUser"
    /\ users' = AddUser(users, user[s][1])
    /\ IF AddUserAffected(users, user[s][1]) THEN SignupCreated(s) ELSE SignupRejected(s)
    /\ UNCHANGED << ledger, records, tasks, form, checkPhone, user, humanCheck, signups >>

\* The ledger after Signup has disabled the codes of the email and of checkPhone.
SignupDisable(l, f, phone) ==
    DisableVerificationCode(DisableVerificationCode(l, f.Email), phone)

\* Signup's end: the codes are disabled, the audit record is handed to a
\* goroutine and the ok response is served.
SignupFinish(s) ==
    /\ pc[s] = "disable"
    /\ ledger' = SignupDisable(ledger, form[s][1], checkPhone[s])
    /\ tasks' = Append(tasks, SignupRecord(form[s][1], user[s][1]))
    /\ Serve(s, << ResponseOk(user[s][1].Owner \o "/" \o user[s][1].Name, "") >>)
    /\ Call(s, << "DisableVerificationCode(" \o form[s][1].Email \o ")",
                  "DisableVerificationCode(" \o checkPhone[s] \o ")",
                  "SafeGoroutine" >>)
    /\ UNCHANGED << users, originalDb, records, session, form, checkPhone, user,
                    humanCheck, signups >>

\* The goroutine of util.SafeGoroutine runs object.AddRecord: the record is
\* written, or the write fails and the failure is swallowed.
AddRecord ==
    \E i \in 1..Len(tasks) :
        /\ tasks' = SubSeq(tasks, 1, i - 1) \o SubSeq(tasks, i + 1, Len(tasks))
        /\ \/ records' = Append(records, tasks[i])
           \/ UNCHANGED records
        /\ UNCHANGED << users, originalDb, ledger, session, locals, humanCheck, signups >>

\* The client has read the response; the session may send its next request.
Return(s) ==
    /\ pc[s] = "done"
    /\ pc' = [pc EXCEPT ![s] = "idle"]
    /\ form' = [form EXCEPT ![s] = << >>]
    /\ checkPhone' = [checkPhone EXCEPT ![s] = ""]
    /\ user' = [user EXCEPT ![s] = << >>]
    /\ resp' = [resp EXCEPT ![s] = << >>]
    /\ calls' = [calls EXCEPT ![s] = << >>]
    /\ UNCHANGED << shared, session, humanCheck, signups >>

-----------------------------------------------------------------------------
(* Logout, GetAccount, GetUserinfo.                                        *)

\* Mutant of LogoutSession: the session data is not cleared.
LogoutSessionKeepsData(sess) == [sess EXCEPT !.username = ""]

\* The session after c.SetSessionUsername("") and c.SetSessionData(nil).
LogoutSession(sess) == [sess EXCEPT !.username = "", !.data = << >>]

\* Mutant of LogoutResponse: the built-in application is not told apart.
LogoutResponseAnyHomepage(s) ==
    LET application == GetSessionApplication(s)
    IN  IF \/ application = << >>
           \/ application[1].HomepageUrl = ""
        THEN ResponseOk(GetSessionUsername(s), "")
        ELSE ResponseOk(GetSessionUsername(s), application[1].HomepageUrl)

\* The body Logout serves: the username and, for an application other than the
\* built-in one that has a homepage, the homepage.
LogoutResponse(s) ==
    LET application == GetSessionApplication(s)
    IN  IF \/ application = << >>
           \/ application[1].Name = "app-built-in"
           \/ application[1].HomepageUrl = ""
        THEN ResponseOk(GetSessionUsername(s), "")
        ELSE ResponseOk(GetSessionUsername(s), application[1].HomepageUrl)

Logout(s) ==
    /\ pc[s] = "idle"
    /\ session' = [session EXCEPT ![s] = LogoutSession(session[s])]
    /\ Serve(s, << LogoutResponse(s) >>)
    /\ Call(s, << "GetSessionUsername", "GetSessionApplication",
                  "SetSessionUsername", "SetSessionData" >>)
    /\ UNCHANGED << shared, form, checkPhone, user, humanCheck, signups >>

\* c.RequireSignedIn(): the error body it serves without a session username, or nil.
RequireSignedIn(s) ==
    IF GetSessionUsername(s) = "" THEN << ResponseError(MsgSignInFirst, "") >> ELSE << >>

\* object.GetMaskedOrganization(object.GetOrganizationByUser(user)), as JSON text.
GetMaskedOrganization(u) ==
    IF GetOrganization("admin/" \o u.Owner) = << >> THEN "null"
    ELSE "{" \o u.Owner \o ",***}"

\* Mutant of GetAccountResponse: the return after a failed RequireSignedIn is
\* missing, GetAccount goes on to the lookup.
GetAccountResponseNoReturn(s) ==
    LET userId == GetSessionUsername(s)
        u      == GetUser(users, userId)
    IN  RequireSignedIn(s) \o
        (IF u = << >>
         THEN << ResponseError("The user: " \o userId \o " doesn't exist", "") >>
         ELSE << Response("ok", "", u[1].Id, u[1].Name, StructToJson(u[1]),
                          GetMaskedOrganization(u[1])) >>)

\* The bodies GetAccount serves.
GetAccountResponse(s) ==
    LET userId == GetSessionUsername(s)
        u      == GetUser(users, userId)
    IN  IF RequireSignedIn(s) # << >> THEN RequireSignedIn(s)
        ELSE IF u = << >>
        THEN << ResponseError("The user: " \o userId \o " doesn't exist", "") >>
        ELSE << Response("ok", "", u[1].Id, u[1].Name, StructToJson(u[1]),
                         GetMaskedOrganization(u[1])) >>

\* The collaborator calls GetAccount makes, in order.
GetAccountCalls(s) ==
    IF RequireSignedIn(s) # << >> THEN << "RequireSignedIn" >>
    ELSE IF GetUser(users, GetSessionUsername(s)) = << >>
    THEN << "RequireSignedIn", "GetUser" >>
    ELSE << "RequireSignedIn", "GetUser", "GetOrganizationByUser",
            "GetMaskedOrganization" >>

GetAccount(s) ==
    /\ pc[s] = "idle"
    /\ Serve(s, GetAccountResponse(s))
    /\ Call(s, GetAccountCalls(s))
    /\ UNCHANGED << shared, session, form, checkPhone, user, humanCheck, signups >>

\* c.GetSessionOidc(): scope and audience of the session data.
GetSessionOidc(s) ==
    IF session[s].data = << >> THEN << "", "" >>
    ELSE << session[s].data[1].scope, session[s].data[1].aud >>

\* object.GetUserInfo(userId, scope, aud, host): the error, "" for none.
GetUserInfoErr(userId, scope, aud) ==
    IF GetUser(users, userId) = << >>
    THEN "the user: " \o userId \o " doesn't exist"
    ELSE ""

\* object.GetUserInfo(userId, scope, aud, host): the claim set, nil with an error.
\* The body is the Userinfo itself, written here in the Response fields.
GetUserInfo(userId, scope, aud) ==
    IF GetUserInfoErr(userId, scope, aud) # ""
    THEN Response("", "", "", "", "null", "")
    ELSE Response("", "", GetUser(users, userId)[1].Id,
                  IF scope = "profile" THEN GetUser(users, userId)[1].Name ELSE "",
                  aud, "door.example")

\* The bodies GetUserinfo serves: after the error body the handler goes on and
\* serves resp as well.
GetUserinfoResponse(s) ==
    LET userId == GetSessionUsername(s)
        scope  == GetSessionOidc(s)[1]
        aud    == GetSessionOidc(s)[2]
    IN  IF RequireSignedIn(s) # << >> THEN RequireSignedIn(s)
        ELSE IF GetUserInfoErr(userId, scope, aud) # ""
        THEN << ResponseError(GetUserInfoErr(userId, scope, aud), ""),
                GetUserInfo(userId, scope, aud) >>
        ELSE << GetUserInfo(userId, scope, aud) >>

\* The collaborator calls GetUserinfo makes, in order.
GetUserinfoCalls(s) ==
    IF RequireSignedIn(s) # << >> THEN << "RequireSignedIn" >>
    ELSE << "RequireSignedIn", "GetSessionOidc", "GetUserInfo" >>

GetUserinfo(s) ==
    /\ pc[s] = "idle"
    /\ Serve(s, GetUserinfoResponse(s))
    /\ Call(s, GetUserinfoCalls(s))
    /\ UNCHANGED << shared, session, form, checkPhone, user, humanCheck, signups >>

-----------------------------------------------------------------------------
(* GetHumanCheck.                                                          *)

\* The HumanCheck struct.
HumanCheck(type, captchaId, captchaImage) ==
    [Type |-> type, AppKey |-> "", Scene |-> "",
     CaptchaId |-> captchaId, CaptchaImage |-> captchaImage]

\* The default human-check providers a deployment may configure: none, or one
\* of some type.
Providers == { << >>, << [Name |-> "provider-hc", Type |-> "hcaptcha"] >> }

\* object.GetDefaultHumanCheckProvider(): the configured provider, or nil.
GetDefaultHumanCheckProvider == provider

\* object.GetCaptcha(): id and image of the captcha it generates, the n-th.
GetCaptcha(n) == << "captcha-" \o Itoa(n), "image-" \o Itoa(n) >>

\* The body GetHumanCheck serves: type "none", replaced by a captcha when no
\* provider is configured.
GetHumanCheckResponse ==
    IF GetDefaultHumanCheckProvider = << >>
    THEN HumanCheck("captcha", GetCaptcha(captchas)[1], GetCaptcha(captchas)[2])
    ELSE HumanCheck("none", "", "")

GetHumanCheck(s) ==
    /\ pc[s] = "idle"
    /\ GetDefaultHumanCheckProvider = << >> => captchas < MaxCaptchas
    /\ captchas' = IF GetDefaultHumanCheckProvider = << >> THEN captchas + 1 ELSE captchas
    /\ Serve(s, << GetHumanCheckResponse >>)
    /\ Call(s, IF GetDefaultHumanCheckProvider = << >>
               THEN << "GetDefaultHumanCheckProvider", "GetCaptcha" >>
               ELSE << "GetDefaultHumanCheckProvider" >>)
    /\ UNCHANGED << shared, session, form, checkPhone, user, provider, signups >>

-----------------------------------------------------------------------------
(* Specification.                                                          *)

Init ==
    /\ users = << >>
    /\ originalDb = << >>
    /\ ledger = [t \in Targets |-> "111"]
    /\ records = << >>
    /\ tasks = << >>
    /\ session = [s \in Sessions |-> [username |-> "", data |-> << >>]]
    /\ pc = [s \in Sessions |-> "idle"]
    /\ form = [s \in Sessions |-> << >>]
    /\ checkPhone = [s \in Sessions |-> ""]
    /\ user = [s \in Sessions |-> << >>]
    /\ resp = [s \in Sessions |-> << >>]
    /\ calls = [s \in Sessions |-> << >>]
    /\ provider = << >>
    /\ captchas = 0
    /\ signups = 0

Next ==
    \/ \E s \in Sessions : SignupCheckEmail(s)
    \/ \E s \in Sessions : SignupCheckPhone(s)
    \/ \E s \in Sessions : SignupAllocateId(s)
    \/ \E s \in Sessions : SignupAddUser(s)
    \/ \E s \in Sessions : SignupFinish(s)
    \/ \E s \in Sessions : Logout(s)
    \/ \E s \in Sessions : GetAccount(s)
    \/ \E s \in Sessions : GetUserinfo(s)
    \/ \E s \in Sessions : Return(s)
    \/ AddRecord

Spec == Init /\ [][Next]_vars

\* Signup requests served one at a time: a Signup is under way in at most one
\* session, as when no two signups are concurrent.
Sequential == Cardinality({ s \in Sessions : pc[s] \notin {"idle", "done"} }) <= 1

NextSeq == Next /\ Sequential'

SpecSeq == Init /\ [][NextSeq]_vars

\* Sessions as the login flow and the authorization endpoints leave them:
\* any username, any session data; a store that holds a user.
SessionData ==
    { << >> } \cup
    { << [application |-> a, scope |-> sc, aud |-> a \o "-client"] >> :
        a \in {"app-built-in", "app-inc", "app-anon", "app-gone"},
        sc \in {"openid", "profile"} }

SeedUser ==
    [ Owner |-> "org1", Name |-> "alice", Id |-> "uuid-9", Type |-> "normal-user",
      DisplayName |-> "Al", FirstName |-> "", LastName |-> "",
      Avatar |-> "avatar1.png", Email |-> "", Phone |-> "", Tag |-> "staff",
      SignupApplication |-> "app-anon" ]

InitSession ==
    /\ users = << SeedUser >>
    /\ originalDb = << SeedUser >>
    /\ ledger = [t \in Targets |-> "111"]
    /\ records = << >>
    /\ tasks = << >>
    /\ session \in [Sessions -> [username : {"", "org1/alice", "org1/ghost"},
                                 data : SessionData]]
    /\ pc = [s \in Sessions |-> "idle"]
    /\ form = [s \in Sessions |-> << >>]
    /\ checkPhone = [s \in Sessions |-> ""]
    /\ user = [s \in Sessions |-> << >>]
    /\ resp = [s \in Sessions |-> << >>]
    /\ calls = [s \in Sessions |-> << >>]
    /\ provider \in Providers
    /\ captchas = 0
    /\ signups = 0

NextSession ==
    \/ \E s \in Sessions : Logout(s)
    \/ \E s \in Sessions : GetAccount(s)
    \/ \E s \in Sessions : GetUserinfo(s)
    \/ \E s \in Sessions : GetHumanCheck(s)
    \/ \E s \in Sessions : Return(s)

SpecSession == InitSession /\ [][NextSession]_vars


-----------------------------------------------------------------------------
(* Properties.                                                             *)

\* Session s takes a step of Signup: the entry (only Signup reads a form) or a
\* later step.
SignupEnters(s) == pc[s] = "idle" /\ form'[s] # << >>
SignupMoves(s)  == pc[s] \in {"checkPhone", "allocate", "addUser", "disable"} /\ pc'[s] # pc[s]
SignupActs(s)   == SignupEnters(s) \/ SignupMoves(s)

\* The call of session s has ended with the one body r.
Ended(s, r) == pc[s] = "done" /\ resp[s] = << r >>

\* The step ends the call of session s with the one body r.
Ends(s, r) == pc'[s] = "done" /\ resp'[s] = << r >>

\* The application a form names exists and has the property P.
Shows(f, name) ==
    \E a \in Applications :
        /\ a.Name = f.Application
        /\ \E i \in 1..Len(a.SignupItems) :
              a.SignupItems[i].name = name /\ a.SignupItems[i].visible

SignupClosed(f) == \E a \in Applications : a.Name = f.Application /\ ~ a.EnableSignUp

\* C1: a Signup call that ends with an error response has changed nothing: the
\* step that serves an error changes neither the stores, the ledger, the audit
\* trail nor the session, and a step that does change one of them is the
\* successful AddUser step or follows it, after which no error is served.
C1_ErrorLeavesStateUntouched ==
    [][ \A s \in Sessions :
          SignupActs(s) =>
            /\ (pc'[s] = "done" /\ resp'[s][1].status = "error")
                  => (pc[s] # "disable" /\ UNCHANGED << shared, session >>)
            /\ (~ UNCHANGED << shared, session >>)
                  => (pc[s] = "disable" \/ pc'[s] = "disable") ]_vars

\* C1 witness: a Signup call has ended with the error of a refused AddUser.
C1_Witness ==
    \E s \in Sessions :
        /\ pc[s] = "done" /\ user[s] # << >>
        /\ resp[s][1].status = "error"
        /\ Len(users) > 0

\* C2 as stated: a Signup for an application with EnableSignUp = false ends
\* with the signup-disabled error and creates no user.
C2_Original ==
    [][ \A s \in Sessions :
          (SignupEnters(s) /\ SignupClosed(form'[s][1]))
            => /\ Ends(s, ResponseError(MsgSignupDisabled, ""))
               /\ users' = users ]_vars

\* C2 amended: a Signup for an application with EnableSignUp = false creates no
\* user and ends at once; from a session that is not signed in it ends with the
\* signup-disabled error.
C2_SignupDisabled ==
    [][ \A s \in Sessions :
          (SignupEnters(s) /\ SignupClosed(form'[s][1]))
            => /\ pc'[s] = "done"
               /\ users' = users
               /\ session[s].username = ""
                    => Ends(s, ResponseError(MsgSignupDisabled, "")) ]_vars

\* C2 witness: a call has ended with the signup-disabled error.
C2_Witness ==
    \E s \in Sessions : Ended(s, ResponseError(MsgSignupDisabled, ""))


\* The verdict of the ledger on the email code and on the phone code of a form.
EmailVerdict(f) == CheckVerificationCode(ledger, f.Email, f.EmailCode)
PhoneVerdict(f) == CheckVerificationCode(ledger, "+" \o f.PhonePrefix \o f.Phone, f.PhoneCode)

\* C3 as stated: with the channel shown and a value supplied, a code the ledger
\* does not accept ends Signup with the error of that channel, and no user is
\* created.
C3_Original ==
    [][ \A s \in Sessions :
          /\ (/\ SignupEnters(s)
              /\ Shows(form'[s][1], "Email") /\ form'[s][1].Email # ""
              /\ EmailVerdict(form'[s][1]) # "")
                => /\ Ends(s, ResponseError("Email: " \o EmailVerdict(form'[s][1]), ""))
                   /\ users' = users
          /\ (/\ SignupActs(s) /\ pc[s] \in {"idle", "checkPhone"} /\ pc'[s] = "done"
              /\ Shows(form'[s][1], "Phone") /\ form'[s][1].Phone # ""
              /\ PhoneVerdict(form'[s][1]) # "")
                => /\ Ends(s, ResponseError("Phone: " \o PhoneVerdict(form'[s][1]), ""))
                   /\ users' = users ]_vars

\* A form passes the checks that precede the email check, for a caller that is
\* not signed in.
PassesValidation(f) ==
    /\ \E a \in Applications : a.Name = f.Application /\ a.EnableSignUp
    /\ CheckUserSignup(GetApplication("admin/" \o f.Application)[1],
                       GetOrganization("admin/" \o f.Organization), f) = ""

\* C3 amended: when the call reaches the check of a channel that is shown and
\* supplied (caller not signed in, signup enabled, validation passed and, for
\* the phone, the email check passed), a code the ledger does not accept then
\* ends Signup with the error of that channel, and nothing is created.
C3_CodeRejected ==
    [][ \A s \in Sessions :
          /\ (/\ SignupEnters(s)
              /\ session[s].username = "" /\ PassesValidation(form'[s][1])
              /\ Shows(form'[s][1], "Email") /\ form'[s][1].Email # ""
              /\ EmailVerdict(form'[s][1]) # "")
                => /\ Ends(s, ResponseError("Email: " \o EmailVerdict(form'[s][1]), ""))
                   /\ UNCHANGED << shared, session >>
          /\ (/\ pc[s] = "checkPhone" /\ pc'[s] # pc[s]
              /\ Shows(form[s][1], "Phone") /\ form[s][1].Phone # ""
              /\ PhoneVerdict(form[s][1]) # "")
                => /\ Ends(s, ResponseError("Phone: " \o PhoneVerdict(form[s][1]), ""))
                   /\ UNCHANGED << shared, session >> ]_vars

\* C3 witness: calls have ended with the error of the phone channel and with
\* that of the email channel.
C3_Witness ==
    /\ \E s \in Sessions : Ended(s, ResponseError("Phone: Wrong code!", ""))
    /\ \E s \in Sessions : Ended(s, ResponseError("Email: Wrong code!", ""))

\* The store holds a record with the owner and name of u.
Holds(store, u) ==
    \E i \in 1..Len(store) : store[i].Owner = u.Owner /\ store[i].Name = u.Name

\* C4: a Signup whose record has the owner and name of a stored record ends
\* with the user-creation error, and the stores are as before: the stored
\* record is not changed and no second one appears.
C4_DuplicateRejected ==
    [][ \A s \in Sessions :
          (pc[s] = "addUser" /\ pc'[s] # pc[s] /\ Holds(users, user[s][1]))
            => /\ Ends(s, ResponseError(MsgCreateFailed \o StructToJson(user[s][1]), ""))
               /\ users' = users
               /\ originalDb' = originalDb ]_vars

\* C4 witness: a call has ended with the user-creation error for a record whose
\* owner and name the store holds.
C4_Witness ==
    \E s \in Sessions :
        /\ pc[s] = "done" /\ user[s] # << >>
        /\ resp[s] = << ResponseError(MsgCreateFailed \o StructToJson(user[s][1]), "") >>
        /\ Holds(users, user[s][1])

\* C5: no two records of the store have the same owner and name.
C5_OwnerNameUnique ==
    \A i, j \in 1..Len(users) :
        (users[i].Owner = users[j].Owner /\ users[i].Name = users[j].Name) => i = j

\* C5 witness: a second signup with a stored owner and name has been refused,
\* and the store holds one record of that name.
C5_Witness ==
    \E s \in Sessions :
        /\ pc[s] = "done" /\ user[s] # << >> /\ resp[s][1].status = "error"
        /\ Cardinality({ i \in 1..Len(users) :
                           users[i].Owner = user[s][1].Owner
                           /\ users[i].Name = user[s][1].Name }) = 1


\* C6 as stated: no two records of one owner have the same id.
C6_IdUniqueWithinOwner ==
    \A i, j \in 1..Len(users) :
        (users[i].Owner = users[j].Owner /\ users[i].Id = users[j].Id) => i = j

\* The targets whose code the signup of record u checked: those of the channels
\* its application shows.
CheckedTargets(application, email, phone) ==
    { t \in Targets :
        \/ (t = email /\ \E a \in Applications : a.Name = application
                          /\ IsSignupItemVisible(a, "Email"))
        \/ (phone # "" /\ t = "+1" \o phone
              /\ \E a \in Applications : a.Name = application
                          /\ IsSignupItemVisible(a, "Phone")) }

\* C7 as stated: the code of a target is checked by at most one successful
\* signup (the ledger holds one code per target throughout), and after a
\* successful signup the ledger rejects the codes it checked.
C7_SingleUse ==
    /\ \A t \in Targets :
          Cardinality({ i \in 1..Len(users) :
              t \in CheckedTargets(users[i].SignupApplication,
                                   users[i].Email, users[i].Phone) }) <= 1
    /\ \A s \in Sessions :
          (pc[s] = "done" /\ form[s] # << >> /\ resp[s][1].status = "ok")
            => \A t \in CheckedTargets(form[s][1].Application,
                                       form[s][1].Email, form[s][1].Phone) :
                  /\ CheckVerificationCode(ledger, t, form[s][1].EmailCode) # ""
                  /\ CheckVerificationCode(ledger, t, form[s][1].PhoneCode) # ""

\* The id rule of the application that record u signed up through is Incremental.
Incremental(application) ==
    \E a \in Applications :
        /\ a.Name = application
        /\ \E i \in 1..Len(a.SignupItems) :
              a.SignupItems[i].name = "ID" /\ a.SignupItems[i].rule = "Incremental"

\* C8: with signups served one at a time, a Signup under the Incremental rule
\* that creates its record gives it the id of the latest record of the
\* organization plus one, "0" in an organization without records; the ids of
\* the records created under the rule in one organization increase strictly.
C8_IncrementalIds ==
    [][ /\ \A s \in Sessions :
             (pc[s] = "addUser" /\ pc'[s] = "disable"
              /\ Incremental(form[s][1].Application))
               => LET mine == { i \in 1..Len(users) :
                                  users[i].Owner = form[s][1].Organization }
                      last == CHOOSE i \in mine : \A j \in mine : j <= i
                  IN  /\ Len(users') = Len(users) + 1
                      /\ users'[Len(users')].Owner = form[s][1].Organization
                      /\ users'[Len(users')].Id =
                           IF mine = {} THEN "0"
                           ELSE Itoa(ParseInt(users[last].Id) + 1)
        /\ \A i, j \in 1..Len(users') :
             (/\ i < j /\ users'[i].Owner = users'[j].Owner
              /\ Incremental(users'[i].SignupApplication)
              /\ Incremental(users'[j].SignupApplication))
               => /\ IsInt(users'[i].Id) /\ IsInt(users'[j].Id)
                  /\ ParseInt(users'[i].Id) < ParseInt(users'[j].Id) ]_vars

\* C8 witness: an organization holds two records created one after the other
\* under the Incremental rule.
C8_Witness ==
    \E i, j \in 1..Len(users) :
        /\ i < j /\ users[i].Owner = users[j].Owner
        /\ Incremental(users[i].SignupApplication)
        /\ Incremental(users[j].SignupApplication)

\* C9: Logout leaves the session without username and without session data,
\* and GetAccount and GetUserinfo then serve the not-signed-in error.
C9_LogoutClearsSession ==
    [][ \A s \in Sessions :
          Logout(s) =>
            /\ session'[s].username = ""
            /\ session'[s].data = << >>
            /\ GetAccountResponse(s)' = << ResponseError(MsgSignInFirst, "") >>
            /\ GetUserinfoResponse(s)' = << ResponseError(MsgSignInFirst, "") >> ]_vars

\* C9 witness: Logout has served a session that had a username and session data.
C9_Witness ==
    \E s \in Sessions :
        /\ Ended(s, ResponseOk("org1/alice", "https://inc.example"))
        /\ session[s] = [username |-> "", data |-> << >>]

\* The redirect target for session data d: the homepage of its application when
\* that exists, is not the built-in one and has a homepage.
Redirect(d) ==
    IF /\ d # << >>
       /\ \E a \in Applications :
             /\ a.Name = d[1].application
             /\ a.Name # "app-built-in"
             /\ a.HomepageUrl # ""
    THEN (CHOOSE a \in Applications : a.Name = d[1].application).HomepageUrl
    ELSE ""

\* C10: Logout serves the username the session had and the redirect target of
\* the session data it had.
C10_LogoutResponse ==
    [][ \A s \in Sessions :
          Logout(s) =>
            Ends(s, [status |-> "ok", msg |-> "", sub |-> "", name |-> "",
                     data |-> session[s].username,
                     data2 |-> Redirect(session[s].data)]) ]_vars

\* C10 witness: Logout has served a signed-in session of the built-in
\* application, without redirect target, while another was sent to a homepage.
C10_Witness ==
    \E s, t \in Sessions :
        /\ Ended(s, ResponseOk("org1/ghost", ""))
        /\ Ended(t, ResponseOk("", "https://inc.example"))

-----------------------------------------------------------------------------
(* Read paths and error handling.                                          *)

\* The calls cs include a call whose name starts as one of names does.
Mentions(cs, names) == \E i \in 1..Len(cs) : cs[i] \in names

\* C11: from a session without username GetAccount and GetUserinfo serve the
\* not-signed-in error and call nothing but RequireSignedIn (no user lookup, no
\* claim assembly); GetAccount, GetUserinfo and GetHumanCheck leave the
\* session, the user store and the verification ledger as they are.
C11_ReadPaths ==
    [][ \A s \in Sessions :
          /\ ((GetAccount(s) \/ GetUserinfo(s)) /\ session[s].username = "")
                => /\ Ends(s, ResponseError(MsgSignInFirst, ""))
                   /\ calls'[s] = << "RequireSignedIn" >>
                   /\ ~ Mentions(calls'[s], {"GetUser", "GetUserInfo", "GetSessionOidc",
                                             "GetOrganizationByUser"})
          /\ (GetAccount(s) \/ GetUserinfo(s) \/ GetHumanCheck(s))
                => UNCHANGED << session, users, originalDb, ledger >> ]_vars

\* C11 witness: a session without username has been served the not-signed-in
\* error while another, signed in, has been served its account.
C11_Witness ==
    \E s, t \in Sessions :
        /\ session[s].username = ""
        /\ Ended(s, ResponseError(MsgSignInFirst, ""))
        /\ calls[s] = << "RequireSignedIn" >>
        /\ pc[t] = "done" /\ Mentions(calls[t], {"GetUser"})

\* C12 as stated, for a caller that is not signed in: a Signup that names no
\* existing application ends with one error response and creates no user; one
\* that names an application open to signup and no existing organization ends
\* with the organization error and creates no user.
C12_NotFoundErrors ==
    [][ \A s \in Sessions :
          (SignupEnters(s) /\ session[s].username = "") =>
            /\ (GetApplication("admin/" \o form'[s][1].Application) = << >>)
                  => /\ pc'[s] = "done" /\ Len(resp'[s]) = 1
                     /\ resp'[s][1].status = "error"
                     /\ users' = users
            /\ (/\ \E a \in Applications :
                      a.Name = form'[s][1].Application /\ a.EnableSignUp
                /\ GetOrganization("admin/" \o form'[s][1].Organization) = << >>)
                  => /\ Ends(s, ResponseError("Organization does not exist", ""))
                     /\ users' = users ]_vars

\* C13 as stated: when the session is signed in and object.GetUserInfo returns
\* an error, GetUserinfo serves one body, the error with that message.
C13_UserinfoError ==
    [][ \A s \in Sessions :
          (/\ GetUserinfo(s) /\ session[s].username # ""
           /\ GetUserInfoErr(session[s].username, GetSessionOidc(s)[1],
                             GetSessionOidc(s)[2]) # "")
            => Ends(s, ResponseError(
                         GetUserInfoErr(session[s].username, GetSessionOidc(s)[1],
                                        GetSessionOidc(s)[2]), "")) ]_vars

\* C14 as stated: with a default provider configured GetHumanCheck serves a
\* descriptor of the provider's type and generates no captcha; without one it
\* serves type "captcha" with the id and image of the captcha it generates.
C14_HumanCheck ==
    [][ \A s \in Sessions :
          GetHumanCheck(s) =>
            /\ pc'[s] = "done" /\ Len(resp'[s]) = 1
            /\ provider # << >>
                  => /\ resp'[s][1].Type = provider[1].Type
                     /\ captchas' = captchas
                     /\ ~ Mentions(calls'[s], {"GetCaptcha"})
            /\ provider = << >>
                  => /\ resp'[s][1].Type = "captcha"
                     /\ resp'[s][1].CaptchaId = "captcha-" \o Itoa(captchas)
                     /\ resp'[s][1].CaptchaImage = "image-" \o Itoa(captchas)
                     /\ captchas' = captchas + 1 ]_vars

-----------------------------------------------------------------------------
(* The record a signup creates, and its audit record.                      *)

\* The application a form names.
AppOf(f) == CHOOSE a \in Applications : a.Name = f.Application

\* The rule the application of a form gives the signup item name, "" without it.
RuleOf(f, name) ==
    LET rules == { AppOf(f).SignupItems[i].rule :
                     i \in { k \in 1..Len(AppOf(f).SignupItems) :
                               AppOf(f).SignupItems[k].name = name } }
    IN  IF rules = {} THEN "" ELSE CHOOSE r \in rules : TRUE

\* Session s takes the step of Signup that creates its record, and the step
\* that ends its call with success.
Creates(s)  == pc[s] = "addUser" /\ pc'[s] = "disable"
Succeeds(s) == pc[s] = "disable" /\ pc'[s] = "done"

\* C15: the record a Signup creates through an application that hides the
\* Username item is named by its id, and the call returns "<owner>/<id>"; with
\* the item shown the record is named by the submitted username.
C15_UsernameAnonymized ==
    [][ \A s \in Sessions :
          /\ Creates(s) =>
                /\ Len(users') = Len(users) + 1
                /\ users'[Len(users')].Owner = form[s][1].Organization
                /\ users'[Len(users')].Name =
                      IF Shows(form[s][1], "Username") THEN form[s][1].Username
                      ELSE users'[Len(users')].Id
          /\ Succeeds(s) =>
                \E i \in 1..Len(users) :
                    /\ users[i] = user[s][1]
                    /\ Ends(s, ResponseOk(
                          form[s][1].Organization \o "/" \o
                            (IF Shows(form[s][1], "Username") THEN form[s][1].Username
                             ELSE users[i].Id), "")) ]_vars

\* C15 witness: the store holds a record named by its random id and one named
\* by its incremental id, and a call has returned the composite of the latter.
C15_Witness ==
    /\ \E i \in 1..Len(users) :
          users[i].SignupApplication = "app-anon" /\ users[i].Name = users[i].Id
    /\ \E i \in 1..Len(users) :
          /\ users[i].SignupApplication = "app-anon-inc"
          /\ users[i].Name = users[i].Id /\ users[i].Id = "0"
    /\ \E s \in Sessions : Ended(s, ResponseOk("org1/0", ""))

\* C16: the record a Signup creates has, under the display-name rule
\* "First, last" with a first or a last name submitted, the display name
\* "<first> <last>" and both parts; otherwise the submitted name as display
\* name and empty parts.
C16_DisplayName ==
    [][ \A s \in Sessions :
          Creates(s) =>
            LET f == form[s][1]
                r == users'[Len(users')]
            IN  IF RuleOf(f, "Display name") = "First, last"
                   /\ ~ (f.FirstName = "" /\ f.LastName = "")
                THEN /\ r.DisplayName = f.FirstName \o " " \o f.LastName
                     /\ r.FirstName = f.FirstName
                     /\ r.LastName = f.LastName
                ELSE /\ r.DisplayName = f.Name
                     /\ r.FirstName = ""
                     /\ r.LastName = "" ]_vars

\* C16 witness: the store holds a record put together from a first name alone
\* and, under the same rule, one that kept the submitted name.
C16_Witness ==
    /\ \E i \in 1..Len(users) :
          /\ users[i].SignupApplication = "app-inc"
          /\ users[i].DisplayName = "Ada " /\ users[i].FirstName = "Ada"
          /\ users[i].LastName = ""
    /\ \E i \in 1..Len(users) :
          /\ users[i].SignupApplication = "app-inc"
          /\ users[i].DisplayName = "Al" /\ users[i].FirstName = ""

\* C17: the step that ends a Signup with success hands exactly one audit
\* record to the background (organization of the application, name of the new
\* record) and serves ok with "<owner>/<name>" without waiting for the write;
\* no other step hands one over; the background write, done or failed, changes
\* neither the user stores, the session nor any response.
C17_AuditRecord ==
    [][ /\ \A s \in Sessions :
             Succeeds(s) =>
               /\ tasks' = Append(tasks, [Organization |-> AppOf(form[s][1]).Organization,
                                          User |-> user[s][1].Name])
               /\ records' = records
               /\ Ends(s, ResponseOk(user[s][1].Owner \o "/" \o user[s][1].Name, ""))
               /\ Holds(users, user[s][1])
        /\ Len(tasks') > Len(tasks) => \E s \in Sessions : Succeeds(s)
        /\ (Len(tasks') < Len(tasks) \/ records' # records)
             => /\ Len(tasks') = Len(tasks) - 1
                /\ UNCHANGED << users, originalDb, ledger, session, pc, resp >> ]_vars

\* C17 witness: two signups have been answered ok; the audit record of one,
\* for another organization than the user's, is written and that of the other
\* is lost.
C17_Witness ==
    /\ \A s \in Sessions : pc[s] = "done" /\ form[s] # << >> /\ resp[s][1].status = "ok"
    /\ tasks = << >>
    /\ Len(records) = 1
    /\ \E i \in 1..Len(users) :
          users[i].Name = records[1].User /\ users[i].Owner # records[1].Organization

-----------------------------------------------------------------------------
(* Order of the checks, session lifecycle, invalidation of codes.          *)

\* None of the calls cs consults the verification ledger.
NoLedger(cs) ==
    \A i \in 1..Len(cs) :
        cs[i] \notin { "CheckVerificationCode(" \o t \o ")" : t \in Targets }

\* C18 as stated: Signup reports the error of the first check a request fails,
\* in the order signed-in, application and signup enabled, organization and
\* fields, email code, phone code, and runs no later step: no ledger lookup
\* after an earlier failure, no phone check after a rejected email code, no
\* write after an error.
C18_FirstFailureWins ==
    [][ \A s \in Sessions :
          /\ SignupEnters(s) =>
                LET f == form'[s][1]
                IN  IF session[s].username # ""
                    THEN /\ Ends(s, ResponseError(MsgSignOutFirst, session[s].username))
                         /\ calls'[s] = << "GetSessionUsername" >>
                    ELSE IF ~ \E a \in Applications : a.Name = f.Application
                    THEN /\ pc'[s] = "done" /\ Len(resp'[s]) = 1
                         /\ resp'[s][1].status = "error"
                         /\ NoLedger(calls'[s])
                         /\ ~ Mentions(calls'[s], {"GetOrganization", "CheckUserSignup"})
                    ELSE IF SignupClosed(f)
                    THEN /\ Ends(s, ResponseError(MsgSignupDisabled, ""))
                         /\ NoLedger(calls'[s])
                         /\ ~ Mentions(calls'[s], {"GetOrganization", "CheckUserSignup"})
                    ELSE IF ~ PassesValidation(f)
                    THEN /\ pc'[s] = "done" /\ Len(resp'[s]) = 1
                         /\ resp'[s][1].status = "error"
                         /\ NoLedger(calls'[s])
                    ELSE IF Shows(f, "Email") /\ f.Email # "" /\ EmailVerdict(f) # ""
                    THEN /\ Ends(s, ResponseError("Email: " \o EmailVerdict(f), ""))
                         /\ ~ Mentions(calls'[s],
                                { "CheckVerificationCode(" \o PhoneTarget("1", ph) \o ")" :
                                    ph \in Phones })
                    ELSE pc'[s] = "checkPhone"
          /\ (pc[s] = "checkPhone" /\ pc'[s] # pc[s]) =>
                IF Shows(form[s][1], "Phone") /\ form[s][1].Phone # ""
                   /\ PhoneVerdict(form[s][1]) # ""
                THEN Ends(s, ResponseError("Phone: " \o PhoneVerdict(form[s][1]), ""))
                ELSE pc'[s] = "allocate"
          /\ (SignupActs(s) /\ pc'[s] = "done" /\ resp'[s][1].status # "ok") =>
                /\ ~ Mentions(calls'[s], {"AddUserToOriginalDatabase", "SetSessionUsername",
                                          "SafeGoroutine"})
                /\ users' = users ]_vars

\* The application a form names has a prompt page.
Prompts(f) ==
    \E i \in 1..Len(AppOf(f).SignupItems) : AppOf(f).SignupItems[i].prompted

\* C19: a Signup from a session with a username ends with the sign-out-first
\* error; the step that creates the record gives the session the new user's
\* "<owner>/<name>" when the application has a prompt page and leaves it
\* without username otherwise, and so it is when the call has ended; a session
\* with a username loses or changes it through Logout only.
C19_SessionLifecycle ==
    [][ \A s \in Sessions :
          /\ (SignupEnters(s) /\ session[s].username # "")
                => /\ Ends(s, ResponseError(MsgSignOutFirst, session[s].username))
                   /\ UNCHANGED << shared, session >>
          /\ Creates(s)
                => /\ session[s].username = ""
                   /\ session'[s].username =
                        IF Prompts(form[s][1])
                        THEN users'[Len(users')].Owner \o "/" \o users'[Len(users')].Name
                        ELSE ""
          /\ Succeeds(s)
                => session'[s].username =
                     IF Prompts(form[s][1]) THEN resp'[s][1].data ELSE ""
          /\ (session[s].username # "" /\ session'[s].username # session[s].username)
                => Logout(s) ]_vars

\* C19 witness: after a signup through the application with a prompt page, a
\* second Signup of the session has been refused with the sign-out-first error.
C19_Witness ==
    \E s \in Sessions :
        /\ Ended(s, ResponseError(MsgSignOutFirst, "org1/uuid-0"))
        /\ session[s].username = "org1/uuid-0"
        /\ form[s][1].Application = "app-inc"
        /\ \E i \in 1..Len(users) :
              users[i].SignupApplication = "app-anon" /\ users[i].Name = "uuid-0"

\* C20 as stated: the step that ends a Signup with success leaves the code of
\* every target it did not check as it was: the targets of the channels the
\* application does not show, and all targets the form does not name.
C20_OnlyCheckedCodes ==
    [][ \A s \in Sessions :
          Succeeds(s) =>
            \A t \in Targets :
                t \notin CheckedTargets(form[s][1].Application, form[s][1].Email,
                                        form[s][1].Phone)
                  => ledger'[t] = ledger[t] ]_vars

=============================================================================
